---- MODULE Spec2Model ----
(***************************************************************************)
(* The Readit Report (src/app.py): a Streamlit script that searches a      *)
(* forum for posts, classifies the comments of the selected posts, applies *)
(* a sarcasm override and shows filterable results.                        *)
(*                                                                         *)
(* Strings are sequences of one-character strings, so that strip, lower,   *)
(* endswith, slicing, capitalize and f-string concatenation are computed   *)
(* character by character as Python computes them.                         *)
(***************************************************************************)
EXTENDS Integers, Sequences, FiniteSets, TLC

VARIABLES
    session_state,  \* session -> st.session_state: a record holding a subset of the keys posts, analysis_results
    cb,             \* session -> the post ids whose checkbox widget cb_<id> holds True
    filter_choice,  \* session -> the value of the filter selectbox
    rendered,       \* session -> what the last run of the script rendered
    search_cache,   \* st.cache_data memo of search_posts: <<topic, subreddit>> -> posts
    analyze_cache,  \* st.cache_data memo of analyze_comments: post_ids -> result
    pipe            \* one direct call of analyze_comments and the filter applied to it

vars == <<session_state, cb, filter_choice, rendered, search_cache, analyze_cache, pipe>>

---------------------------------------------------------------------------
(* Bounds *)

MaxLen == 4         \* longest raw comment body drawn from the alphabet
MaxComments == 2    \* most comments in one sampled thread

---------------------------------------------------------------------------
(* Python str operations *)

LowerLetters == <<"a","b","c","d","e","f","g","h","i","j","k","l","m",
                  "n","o","p","q","r","s","t","u","v","w","x","y","z">>
UpperLetters == <<"A","B","C","D","E","F","G","H","I","J","K","L","M",
                  "N","O","P","Q","R","S","T","U","V","W","X","Y","Z">>
Whitespace == {" ", "\t", "\n"}

CharLower(c) ==
    IF \E i \in 1..26 : UpperLetters[i] = c
    THEN LowerLetters[CHOOSE i \in 1..26 : UpperLetters[i] = c]
    ELSE c

CharUpper(c) ==
    IF \E i \in 1..26 : LowerLetters[i] = c
    THEN UpperLetters[CHOOSE i \in 1..26 : LowerLetters[i] = c]
    ELSE c

\* str.lower()
Lower(s) == [i \in 1..Len(s) |-> CharLower(s[i])]

\* label[0].upper() + label[1:]: the rest is left as it was
CapitalizeFirstOnly(s) ==
    [i \in 1..Len(s) |-> IF i = 1 THEN CharUpper(s[i]) ELSE s[i]]

\* str.capitalize(): first character upper-cased, the rest lower-cased
Capitalize(s) ==
    [i \in 1..Len(s) |-> IF i = 1 THEN CharUpper(s[i]) ELSE CharLower(s[i])]

\* str.strip(): leading and trailing whitespace removed
Strip(s) ==
    LET keep == {i \in 1..Len(s) : s[i] \notin Whitespace}
    IN  IF keep = {} THEN <<>>
        ELSE LET lo == CHOOSE i \in keep : \A j \in keep : i <= j
                 hi == CHOOSE i \in keep : \A j \in keep : j <= i
             IN  SubSeq(s, lo, hi)

\* str.endswith(suffix)
EndsWith(s, suffix) ==
    /\ Len(s) >= Len(suffix)
    /\ SubSeq(s, Len(s) - Len(suffix) + 1, Len(s)) = suffix

\* s[:-2]
DropLast2(s) == SubSeq(s, 1, Len(s) - 2)

\* s[:n]
Prefix(s, n) == SubSeq(s, 1, IF Len(s) < n THEN Len(s) ELSE n)

\* list.count(x)
Count(seq, x) == Cardinality({i \in 1..Len(seq) : seq[i] = x})

---------------------------------------------------------------------------
(* String literals of the script *)

Marker == <<"/","s">>
Positive == <<"P","o","s","i","t","i","v","e">>
Negative == <<"N","e","g","a","t","i","v","e">>
Neutral == <<"N","e","u","t","r","a","l">>
Sarcastic == <<"S","a","r","c","a","s","t","i","c">>
All == <<"A","l","l">>
ReversedPrefix == <<"S","a","r","c","a","s","t","i","c"," ","(","R","e","v","e","r","s","e","d"," ","t","o"," ">>
ReversedSuffix == <<")">>
Empty == <<>>

\* the options of the filter selectbox
FilterOptions == {All, Positive, Negative, Neutral, Sarcastic}

\* the value analyze_comments returns when nothing was fetched
None == [none |-> TRUE]

---------------------------------------------------------------------------
(* analyze_comments *)

\* parent_text of a fetched comment
ParentText(parent) ==
    IF parent.kind = "Comment" THEN parent.body
    ELSE IF parent.kind = "Submission" THEN parent.title
    ELSE Empty

\* the comments of one submission, in comments.list() order
ThreadComments(thread) ==
    [i \in 1..Len(thread) |->
        [text |-> Strip(thread[i].body), parent_text |-> ParentText(thread[i].parent)]]

\* the fetch loop over post_ids
RECURSIVE FetchComments(_, _)
FetchComments(post_ids, threads) ==
    IF post_ids = <<>> THEN <<>>
    ELSE ThreadComments(threads[Head(post_ids)]) \o FetchComments(Tail(post_ids), threads)

\* the inversion table of the sarcasm override
ReverseSentiment(original_sentiment) ==
    IF original_sentiment = Positive THEN Negative
    ELSE IF original_sentiment = Negative THEN Positive
    ELSE Negative

\* the text handed to the single-item classifier call for a sarcastic comment
CleanText(comment_body) == Strip(DropLast2(comment_body))

\* endswith without lower(): /S is not seen
IsSarcasticCaseSensitive(comment_body) == EndsWith(comment_body, Marker)

IsSarcastic(comment_body) == EndsWith(Lower(comment_body), Marker)

\* the reversed label taken from the batched prediction for the full text
AnalyzeOneBatchLabel(comment_data, prediction, original_label) ==
    LET comment_body == comment_data.text
    IN  IF EndsWith(Lower(comment_body), Marker)
        THEN [text |-> Strip(DropLast2(comment_body)),
              sentiment_category |-> Sarcastic,
              display_label |->
                  ReversedPrefix \o ReverseSentiment(Capitalize(prediction)) \o ReversedSuffix,
              parent_text |-> comment_data.parent_text]
        ELSE [text |-> comment_body,
              sentiment_category |-> Capitalize(prediction),
              display_label |-> Capitalize(prediction),
              parent_text |-> comment_data.parent_text]

\* the body of the loop over structured_comments: prediction is results[i],
\* original_label is the label the single-item call on the clean text returns
AnalyzeOne(comment_data, prediction, original_label) ==
    LET comment_body == comment_data.text
    IN  IF IsSarcastic(comment_body)
        THEN [text |-> CleanText(comment_body),
              sentiment_category |-> Sarcastic,
              display_label |->
                  ReversedPrefix \o ReverseSentiment(Capitalize(original_label)) \o ReversedSuffix,
              parent_text |-> comment_data.parent_text]
        ELSE [text |-> comment_body,
              sentiment_category |-> Capitalize(prediction),
              display_label |-> Capitalize(prediction),
              parent_text |-> comment_data.parent_text]

SummaryCounts(analyzed_comments) ==
    LET sentiments == [i \in 1..Len(analyzed_comments) |-> analyzed_comments[i].sentiment_category]
    IN  [total_comments |-> Len(analyzed_comments),
         positive |-> Count(sentiments, Positive),
         negative |-> Count(sentiments, Negative),
         neutral |-> Count(sentiments, Neutral),
         sarcastic |-> Count(sentiments, Sarcastic)]

\* no early return: an empty fetch yields a structure with an empty comment list
AnalyzeNoEmptyCheck(post_ids, threads, batch, single) ==
    LET structured_comments == FetchComments(post_ids, threads)
        analyzed_comments ==
            [i \in 1..Len(structured_comments) |->
                AnalyzeOne(structured_comments[i], batch[i], single[i])]
    IN  [counts |-> SummaryCounts(analyzed_comments), comments |-> analyzed_comments]

\* threads: post id -> the comments the forum returns for it;
\* batch: the labels of the batched classifier call, one per fetched comment;
\* single: the labels of the single-item calls, by index of the sarcastic comment
analyze_comments(post_ids, threads, batch, single) ==
    LET structured_comments == FetchComments(post_ids, threads)
    IN  IF structured_comments = <<>> THEN None
        ELSE LET analyzed_comments ==
                     [i \in 1..Len(structured_comments) |->
                         AnalyzeOne(structured_comments[i], batch[i], single[i])]
             IN  [counts |-> SummaryCounts(analyzed_comments),
                  comments |-> analyzed_comments]

\* the inputs of every sentiment_pipeline call one run makes, in call order
RECURSIVE SingleCalls(_)
SingleCalls(structured) ==
    IF structured = <<>> THEN <<>>
    ELSE (IF IsSarcastic(Head(structured).text)
          THEN << <<CleanText(Head(structured).text)>> >> ELSE <<>>)
         \o SingleCalls(Tail(structured))

PipelineCalls(post_ids, threads) ==
    LET structured_comments == FetchComments(post_ids, threads)
    IN  IF structured_comments = <<>> THEN <<>>
        ELSE << [i \in 1..Len(structured_comments) |-> structured_comments[i].text] >>
             \o SingleCalls(structured_comments)

---------------------------------------------------------------------------
(* The filter of the results view *)

\* the filter compared with display_label instead of sentiment_category
FilterCommentsByLabel(all_comments, choice) ==
    IF choice = All THEN all_comments
    ELSE SelectSeq(all_comments, LAMBDA c : c.display_label = choice)

FilterComments(all_comments, choice) ==
    IF choice = All THEN all_comments
    ELSE SelectSeq(all_comments, LAMBDA c : c.sentiment_category = choice)

ErrorMessage == "Could not retrieve or analyze comments."
NoMatchMessage == "No comments found for this filter."
NoPostsWarning == "No posts found for this topic."
SelectWarning == "Please select at least one post to analyze."

\* one comment card: the reply context cut to 200 characters, the label, the text
Card(comment) ==
    [reply_to |-> Prefix(comment.parent_text, 200),
     category |-> comment.sentiment_category,
     label |-> comment.display_label,
     text |-> comment.text]

\* the "Analysis Results" section for a stored result and a filter choice
ResultsView(results, choice) ==
    IF results = None
    THEN [error |-> ErrorMessage, metrics |-> <<>>, showing |-> <<>>, cards |-> <<>>, info |-> ""]
    ELSE LET all_comments == results.comments
             comments_to_display == FilterComments(all_comments, choice)
         IN  [error |-> "",
              metrics |-> <<results.counts.total_comments, results.counts.positive,
                            results.counts.negative, results.counts.neutral,
                            results.counts.sarcastic>>,
              showing |-> <<Len(comments_to_display), Len(all_comments)>>,
              cards |-> [i \in 1..Len(comments_to_display) |-> Card(comments_to_display[i])],
              info |-> IF comments_to_display # <<>> THEN "" ELSE NoMatchMessage]

---------------------------------------------------------------------------
(* Inputs of the model: forum content and classifier output *)

PostIds == {"p1", "p2"}
Sessions == {"u1"}
SharedSessions == {"u1", "u2"}

\* str.upper(), used only to spell classifier labels in upper case
Upper(s) == [i \in 1..Len(s) |-> CharUpper(s[i])]

\* the labels a classifier may return: positive/negative/neutral in several letter cases
RawLabels == UNION {{Lower(l), l, Upper(l)} : l \in {Positive, Negative, Neutral}}
FewLabels == {Lower(Positive), Upper(Negative), Neutral}

\* every string over the alphabet of length at most n
Alphabet == {" ", "/", "s", "S"}
Strings(n) == UNION {[1..k -> Alphabet] : k \in 0..n}

TitleParent == [kind |-> "Submission", body |-> Empty, title |-> <<"T">>]
ReplyParent == [kind |-> "Comment", body |-> <<" ","r"," ">>, title |-> Empty]
GoneParent == [kind |-> "Other", body |-> Empty, title |-> Empty]

\* two comments: a plain top-level one, and a padded reply with an upper-case marker
SampleComments ==
    { [body |-> <<"o","k">>, parent |-> TitleParent],
      [body |-> <<" ","n","o"," ","/","S"," ">>, parent |-> ReplyParent] }

SeqsUpTo(S, n) == UNION {[1..k -> S] : k \in 0..n}

RECURSIVE TotalComments(_, _)
TotalComments(post_ids, threads) ==
    IF post_ids = <<>> THEN 0
    ELSE Len(threads[Head(post_ids)]) + TotalComments(Tail(post_ids), threads)

\* non-empty lists of distinct post ids
IdLists == {ids \in SeqsUpTo(PostIds, Cardinality(PostIds)) :
               /\ ids # <<>>
               /\ \A i, j \in 1..Len(ids) : i # j => ids[i] # ids[j]}

Range(seq) == {seq[i] : i \in 1..Len(seq)}

\* one rich comment under p1, or up to MaxComments sample comments spread over the posts
PipeInputs ==
    {[post_ids |-> <<"p1">>,
      threads |-> [p \in PostIds |->
                      IF p = "p1" THEN <<[body |-> b, parent |-> GoneParent]>> ELSE <<>>]]
        : b \in Strings(MaxLen)}
    \cup
    UNION {{[post_ids |-> ids, threads |-> th] :
               th \in {t \in [PostIds -> SeqsUpTo(SampleComments, MaxComments)] :
                          /\ TotalComments(ids, t) <= MaxComments
                          /\ \A p \in PostIds \ Range(ids) : t[p] = <<>>}}
           : ids \in IdLists}

PipeLabels(n) == IF n = 1 THEN RawLabels ELSE FewLabels

---------------------------------------------------------------------------
(* A direct call of analyze_comments, then the filter of the results view *)

PipeOff == [phase |-> "off"]

PipeInit ==
    \E inp \in PipeInputs :
        pipe = [phase |-> "input", post_ids |-> inp.post_ids, threads |-> inp.threads]

PipeRun ==
    /\ pipe.phase = "input"
    /\ LET n == TotalComments(pipe.post_ids, pipe.threads)
           sarcastic == {i \in 1..n : IsSarcastic(FetchComments(pipe.post_ids, pipe.threads)[i].text)}
       IN  \E batch \in [1..n -> PipeLabels(n)], single \in [sarcastic -> PipeLabels(n)] :
               pipe' = [phase |-> "returned",
                        post_ids |-> pipe.post_ids,
                        threads |-> pipe.threads,
                        batch |-> batch,
                        single |-> single,
                        calls |-> PipelineCalls(pipe.post_ids, pipe.threads),
                        result |-> analyze_comments(pipe.post_ids, pipe.threads, batch, single)]
    /\ UNCHANGED <<session_state, cb, filter_choice, rendered, search_cache, analyze_cache>>

PipeRender ==
    /\ pipe.phase = "returned"
    /\ \E choice \in (IF pipe.result = None THEN {All} ELSE FilterOptions) :
           pipe' = [pipe EXCEPT !.phase = "rendered"] @@
                   [choice |-> choice, view |-> ResultsView(pipe.result, choice)]
    /\ UNCHANGED <<session_state, cb, filter_choice, rendered, search_cache, analyze_cache>>

SessionsOff ==
    /\ session_state = <<>>
    /\ cb = <<>>
    /\ filter_choice = <<>>
    /\ rendered = <<>>
    /\ search_cache = <<>>
    /\ analyze_cache = <<>>

InitPipe == SessionsOff /\ PipeInit
NextPipe == PipeRun \/ PipeRender
SpecPipe == InitPipe /\ [][NextPipe]_vars

---------------------------------------------------------------------------
(* The script: one run per user event, per session *)

\* dict operations on st.session_state and on the memo caches
HasKey(d, k) == k \in DOMAIN d
Put(d, k, v) == [x \in DOMAIN d \cup {k} |-> IF x = k THEN v ELSE d[x]]
Del(d, k) == [x \in DOMAIN d \ {k} |-> d[x]]

\* `if not subreddit: subreddit = "all"`
SearchScope(subreddit) == IF subreddit = "" THEN "all" ELSE subreddit

\* the post ids of a post list, in list order
Ids(posts) == [i \in 1..Len(posts) |-> posts[i].id]

\* the loop collecting selected_posts: the ids of the posts whose checkbox is checked
SelectedPosts(posts, boxes) ==
    Ids(SelectSeq(posts, LAMBDA post : post.id \in boxes))

\* the checkboxes the script renders: one per post of a non-empty post list
CheckboxKeys(st) ==
    IF HasKey(st, "posts") THEN {st.posts[i].id : i \in 1..Len(st.posts)} ELSE {}

\* whether the filter selectbox is rendered
FilterShown(st) == HasKey(st, "analysis_results") /\ st.analysis_results # None

\* lines 141-224: what the script renders from the session state once the button
\* handlers are done, with the warning the analyze handler may have raised
RenderPage(st, choice, warning) ==
    [warnings |->
         (IF HasKey(st, "posts") /\ st.posts = <<>> THEN {NoPostsWarning} ELSE {})
         \cup (IF warning = "" THEN {} ELSE {warning}),
     analyze_button |-> HasKey(st, "posts") /\ st.posts # <<>>,
     results |->
         IF HasKey(st, "analysis_results")
         THEN <<ResultsView(st.analysis_results, choice)>>
         ELSE <<>>]

\* the record of one run: the event that started it, the selected_posts the analyze
\* handler collected, whether analyze_comments was called, the session whose call
\* filled the memo entry that served the run ("" when no memoized function was called),
\* the forum query made on a search miss, and the post ids the analysis_results the
\* run leaves were computed from
Run(handler, selected, called, served_by, asked, from) ==
    [handler |-> handler, selected |-> selected, called |-> called,
     served_by |-> served_by, asked |-> asked, from |-> from]

\* the state kept in a module-level global: every session sees the last writer's
EndRunGlobal(s, st, boxes, choice, warning, run) ==
    LET kept == IF HasKey(st, "analysis_results") /\ st.analysis_results # None THEN choice ELSE All
    IN  /\ session_state' = [t \in DOMAIN session_state |-> st]
        /\ cb' = [cb EXCEPT ![s] = boxes \cap CheckboxKeys(st)]
        /\ filter_choice' = [filter_choice EXCEPT ![s] = kept]
        /\ rendered' = [rendered EXCEPT ![s] = RenderPage(st, kept, warning) @@ run]
        /\ pipe' = pipe

\* the end of a run of the script for session s: the session state it leaves, the
\* widget state that survives (widgets not rendered in the run lose theirs), the page,
\* and a record of the run
EndRun(s, st, boxes, choice, warning, run) ==
    LET kept == IF FilterShown(st) THEN choice ELSE All
    IN  /\ session_state' = [session_state EXCEPT ![s] = st]
        /\ cb' = [cb EXCEPT ![s] = boxes \cap CheckboxKeys(st)]
        /\ filter_choice' = [filter_choice EXCEPT ![s] = kept]
        /\ rendered' = [rendered EXCEPT ![s] = RenderPage(st, kept, warning) @@ run]
        /\ pipe' = pipe

\* search_posts under st.cache_data: the memo is keyed by the arguments and shared by
\* every session of the process; on a miss the forum is asked and the answer stored
SearchPosts(s, topic, subreddit, answer) ==
    LET key == <<topic, subreddit>>
    IN  IF HasKey(search_cache, key)
        THEN [value |-> search_cache[key].value,
              cache |-> search_cache,
              by |-> search_cache[key].by,
              asked |-> <<>>]
        ELSE [value |-> answer,
              cache |-> Put(search_cache, key, [value |-> answer, by |-> s]),
              by |-> s,
              asked |-> <<SearchScope(subreddit), topic>>]

\* analyze_comments under st.cache_data, keyed by the post_ids list
AnalyzeCached(s, post_ids, threads, batch, single) ==
    IF HasKey(analyze_cache, post_ids)
    THEN [value |-> analyze_cache[post_ids].value,
          cache |-> analyze_cache,
          by |-> analyze_cache[post_ids].by]
    ELSE LET value == analyze_comments(post_ids, threads, batch, single)
         IN  [value |-> value,
              cache |-> Put(analyze_cache, post_ids, [value |-> value, by |-> s]),
              by |-> s]

\* analysis_results deleted only when the search found posts
SearchStoreIfFound(st, posts) ==
    IF posts # <<>> THEN Del(Put(st, "posts", posts), "analysis_results")
    ELSE Put(st, "posts", posts)

\* analysis_results not deleted
SearchStoreKeep(st, posts) == Put(st, "posts", posts)

\* the "Search for Posts" button: lines 136-139, then the rest of the script
SearchStore(st, posts) == Del(Put(st, "posts", posts), "analysis_results")

\* the forum is asked only on a memo miss
ForumAnswers(topic, subreddit, Answers) ==
    IF HasKey(search_cache, <<topic, subreddit>>) THEN {<<>>} ELSE Answers

Search(s, Topics, Subreddits, Answers) ==
    \E topic \in Topics, subreddit \in Subreddits :
        \E answer \in ForumAnswers(topic, subreddit, Answers) :
            LET found == SearchPosts(s, topic, subreddit, answer)
                st == SearchStore(session_state[s], found.value)
            IN  /\ search_cache' = found.cache
                /\ UNCHANGED analyze_cache
                /\ EndRun(s, st, cb[s], filter_choice[s], "",
                          Run("search", <<>>, FALSE, found.by, found.asked, <<>>))

\* the result stored without testing selected_posts
AnalyzeStoreAlways(st, selected_posts, value) == Put(st, "analysis_results", value)

\* the "Analyze Selected Posts" button: lines 149-158, then the rest of the script
AnalyzeStore(st, selected_posts, value) ==
    IF selected_posts # <<>> THEN Put(st, "analysis_results", value) ELSE st

AnalyzeWarning(selected_posts) == IF selected_posts # <<>> THEN "" ELSE SelectWarning

\* the forum and the classifier are reached only on a memo miss: the threads of the
\* selected posts, the batched labels and the labels of the single-item calls
FetchedInputs(post_ids, Threads, Labels) ==
    IF HasKey(analyze_cache, post_ids)
    THEN {[threads |-> [p \in PostIds |-> <<>>], batch |-> <<>>, single |-> <<>>]}
    ELSE UNION {
             LET fetched == FetchComments(post_ids, threads)
                 sarcastic == {i \in 1..Len(fetched) : IsSarcastic(fetched[i].text)}
             IN  {[threads |-> threads, batch |-> batch, single |-> single] :
                      batch \in [1..Len(fetched) -> Labels], single \in [sarcastic -> Labels]}
             : threads \in {t \in [PostIds -> Threads] :
                               \A p \in PostIds \ Range(post_ids) : t[p] = <<>>}}

Analyze(s, Threads, Labels) ==
    /\ HasKey(session_state[s], "posts")
    /\ session_state[s].posts # <<>>
    /\ LET selected_posts == SelectedPosts(session_state[s].posts, cb[s])
       IN  IF selected_posts # <<>>
           THEN \E in \in FetchedInputs(selected_posts, Threads, Labels) :
                    LET got == AnalyzeCached(s, selected_posts, in.threads, in.batch, in.single)
                    IN  /\ analyze_cache' = got.cache
                        /\ UNCHANGED search_cache
                        /\ EndRun(s, AnalyzeStore(session_state[s], selected_posts, got.value),
                                  cb[s], filter_choice[s], AnalyzeWarning(selected_posts),
                                  Run("analyze", selected_posts, TRUE, got.by, <<>>, selected_posts))
           ELSE /\ UNCHANGED <<search_cache, analyze_cache>>
                /\ EndRun(s, AnalyzeStore(session_state[s], selected_posts, None),
                          cb[s], filter_choice[s], AnalyzeWarning(selected_posts),
                          Run("analyze", selected_posts, FALSE, "", <<>>, rendered[s].from))

\* a click on the checkbox of one listed post: lines 160-164; no button is pressed
Toggle(s) ==
    \E id \in CheckboxKeys(session_state[s]) :
        /\ UNCHANGED <<search_cache, analyze_cache>>
        /\ EndRun(s, session_state[s],
                  IF id \in cb[s] THEN cb[s] \ {id} ELSE cb[s] \cup {id},
                  filter_choice[s], "",
                  Run("checkbox", <<>>, FALSE, "", <<>>, rendered[s].from))

\* the result held in a local of the button branch: gone on the next run
SetFilterLosesResults(s) ==
    /\ FilterShown(session_state[s])
    /\ \E choice \in FilterOptions :
           /\ UNCHANGED <<search_cache, analyze_cache>>
           /\ EndRun(s, Del(session_state[s], "analysis_results"), cb[s], choice, "",
                     Run("filter", <<>>, FALSE, "", <<>>, rendered[s].from))

\* a new choice in the filter selectbox: lines 190-204; no button is pressed
SetFilter(s) ==
    /\ FilterShown(session_state[s])
    /\ \E choice \in FilterOptions :
           /\ UNCHANGED <<search_cache, analyze_cache>>
           /\ EndRun(s, session_state[s], cb[s], choice, "",
                     Run("filter", <<>>, FALSE, "", <<>>, rendered[s].from))

\* a fresh session: empty session state, no widget state, nothing rendered yet
InitSessions(S) ==
    /\ session_state = [s \in S |-> <<>>]
    /\ cb = [s \in S |-> {}]
    /\ filter_choice = [s \in S |-> All]
    /\ rendered = [s \in S |->
                      RenderPage(<<>>, All, "") @@ Run("start", <<>>, FALSE, "", <<>>, <<>>)]
    /\ search_cache = <<>>
    /\ analyze_cache = <<>>
    /\ pipe = PipeOff

---------------------------------------------------------------------------
(* One session *)

Topics == {"AI ethics"}
Subreddits == {"", "technology"}
Post(id) == [id |-> id]
SearchAnswers == {<<>>, <<Post("p1")>>, <<Post("p1"), Post("p2")>>}
SessionThreads == {<<>>, <<[body |-> <<" ","n","o"," ","/","S"," ">>, parent |-> ReplyParent]>>}
SessionLabels == {Lower(Positive), Upper(Negative)}

Init == InitSessions(Sessions)

Next ==
    \E s \in Sessions :
        \/ Search(s, Topics, Subreddits, SearchAnswers)
        \/ Analyze(s, SessionThreads, SessionLabels)
        \/ Toggle(s)
        \/ SetFilter(s)

Spec == Init /\ [][Next]_vars

---------------------------------------------------------------------------
(* Two sessions of one server process *)

SharedAnswers == {<<>>, <<Post("p1")>>}
SharedLabels == {Lower(Neutral)}

InitShared == InitSessions(SharedSessions)

NextShared ==
    \E s \in SharedSessions :
        \/ Search(s, Topics, Subreddits, SharedAnswers)
        \/ Analyze(s, SessionThreads, SharedLabels)
        \/ Toggle(s)
        \/ SetFilter(s)

SpecShared == InitShared /\ [][NextShared]_vars

---------------------------------------------------------------------------
(* Properties of analyze_comments and of the results view, under SpecPipe *)

Categories == {Positive, Negative, Neutral, Sarcastic}

PipeReturned == pipe.phase \in {"returned", "rendered"}

\* the raw comments the call fetched, in fetch order
RECURSIVE RawFetched(_, _)
RawFetched(post_ids, threads) ==
    IF post_ids = <<>> THEN <<>>
    ELSE threads[Head(post_ids)] \o RawFetched(Tail(post_ids), threads)

\* cutting a characters from the front of x and b from its end removes exactly its
\* leading and trailing whitespace
IsTrimCut(x, a, b) ==
    /\ a + b <= Len(x)
    /\ \A i \in 1..a : x[i] \in Whitespace
    /\ \A i \in (Len(x) - b + 1)..Len(x) : x[i] \in Whitespace
    /\ IF a + b = Len(x) THEN b = 0
       ELSE x[a + 1] \notin Whitespace /\ x[Len(x) - b] \notin Whitespace

\* t is x without its leading and trailing whitespace
IsTrimOf(t, x) ==
    \E a, b \in 0..Len(x) : IsTrimCut(x, a, b) /\ t = SubSeq(x, a + 1, Len(x) - b)

\* t ends with /s or /S
HasMarker(t) == Len(t) >= 2 /\ t[Len(t) - 1] = "/" /\ t[Len(t)] \in {"s", "S"}

\* C1: every comment of a non-null result has one of the four categories, and the
\* four category counts sum to total_comments, which is the length of the comment list.
C1_CountsSumToTotal ==
    (PipeReturned /\ pipe.result # None) =>
        LET r == pipe.result
        IN  /\ \A i \in 1..Len(r.comments) : r.comments[i].sentiment_category \in Categories
            /\ r.counts.positive + r.counts.negative + r.counts.neutral + r.counts.sarcastic
                   = r.counts.total_comments
            /\ r.counts.total_comments = Len(r.comments)

C1_Witness ==
    /\ PipeReturned /\ pipe.result # None
    /\ pipe.batch[1] = Upper(Negative)
    /\ pipe.result.counts.negative = 1
    /\ pipe.result.counts.sarcastic = 1
    /\ pipe.result.counts.total_comments = 2

C5_SarcasmDetection ==
    (PipeReturned /\ pipe.result # None) =>
        LET raw == RawFetched(pipe.post_ids, pipe.threads)
        IN  /\ Len(pipe.result.comments) = Len(raw)
            /\ \A i \in 1..Len(raw) :
                   LET c == pipe.result.comments[i]
                       body == raw[i].body
                   IN  \E a, b \in 0..Len(body) :
                           /\ IsTrimCut(body, a, b)
                           /\ LET t == SubSeq(body, a + 1, Len(body) - b)
                              IN  /\ c.sentiment_category = Sarcastic <=> HasMarker(t)
                                  /\ HasMarker(t) => IsTrimOf(c.text, SubSeq(t, 1, Len(t) - 2))
                                  /\ ~HasMarker(t) => c.text = t

C5_Witness ==
    /\ PipeReturned /\ pipe.result # None
    /\ pipe.threads["p1"][1].body = <<"s", " ", "/", "S">>
    /\ pipe.batch[1] = Lower(Positive)
    /\ pipe.result.comments[1].sentiment_category = Sarcastic
    /\ pipe.result.comments[1].text = <<"s">>

\* the label X that the fixed table gives for a classifier label
TableFor(label) ==
    IF Lower(label) = Lower(Positive) THEN Negative
    ELSE IF Lower(label) = Lower(Negative) THEN Positive
    ELSE Negative

\* C6: for a sarcastic comment the display label is "Sarcastic (Reversed to X)" with X
\* read off the fixed table from the label of the single-item call on the cleaned text,
\* not from the batched label; X is never Neutral; the classifier is called once on the
\* batch and once per sarcastic comment on its cleaned text.
C6_ReversedLabel ==
    (PipeReturned /\ pipe.result # None) =>
        LET cs == pipe.result.comments
            sarc == {i \in 1..Len(cs) : cs[i].sentiment_category = Sarcastic}
        IN  /\ \A i \in sarc :
                   /\ cs[i].display_label = ReversedPrefix \o TableFor(pipe.single[i]) \o <<")">>
                   /\ cs[i].display_label # ReversedPrefix \o Neutral \o <<")">>
            /\ Len(pipe.calls) = 1 + Cardinality(sarc)
            /\ Len(pipe.calls[1]) = Len(cs)
            /\ \A k \in 1..Cardinality(sarc) :
                   LET i == CHOOSE j \in sarc : Cardinality({m \in sarc : m <= j}) = k
                   IN  pipe.calls[1 + k] = <<cs[i].text>>

C6_Witness ==
    /\ PipeReturned /\ pipe.result # None
    /\ pipe.batch[1] = Lower(Positive)
    /\ pipe.single[1] = Lower(Neutral)
    /\ pipe.result.comments[1].display_label = ReversedPrefix \o Negative \o <<")">>

\* C7: the filter All shows every comment in order; a category shows exactly the
\* comments of that category, in their original order, as many as its summary count.
CountFor(counts, choice) ==
    IF choice = Positive THEN counts.positive
    ELSE IF choice = Negative THEN counts.negative
    ELSE IF choice = Neutral THEN counts.neutral
    ELSE counts.sarcastic

C7_FilterExact ==
    (pipe.phase = "rendered" /\ pipe.result # None) =>
        LET cs == pipe.result.comments
            hits == {i \in 1..Len(cs) : pipe.choice = All \/ cs[i].sentiment_category = pipe.choice}
            shown == pipe.view.cards
        IN  /\ Len(shown) = Cardinality(hits)
            /\ pipe.view.showing = <<Cardinality(hits), Len(cs)>>
            /\ pipe.choice = All => Len(shown) = Len(cs)
            /\ pipe.choice # All => Len(shown) = CountFor(pipe.result.counts, pipe.choice)
            /\ \A k \in 1..Len(shown) :
                   LET i == CHOOSE j \in hits : Cardinality({m \in hits : m <= j}) = k
                   IN  /\ shown[k].text = cs[i].text
                       /\ shown[k].category = cs[i].sentiment_category
                       /\ shown[k].label = cs[i].display_label

C7_Witness ==
    /\ pipe.phase = "rendered" /\ pipe.result # None
    /\ pipe.choice = Positive
    /\ Len(pipe.result.comments) = 2
    /\ pipe.result.comments[1].sentiment_category = Sarcastic
    /\ pipe.result.comments[2].sentiment_category = Positive
    /\ Len(pipe.view.cards) = 1

---------------------------------------------------------------------------
(* Properties of the session state machine, under Spec *)

Results(s) == session_state[s].analysis_results
HasResults(s) == HasKey(session_state[s], "analysis_results")
HasPosts(s) == HasKey(session_state[s], "posts")

C3_NoSelectionNoRun ==
    [][\A s \in DOMAIN rendered :
           rendered'[s].handler = "analyze" =>
               LET posts == session_state[s].posts
                   checked == {i \in 1..Len(posts) : posts[i].id \in cb[s]}
               IN  /\ checked = {} =>
                          /\ ~rendered'[s].called
                          /\ SelectWarning \in rendered'[s].warnings
                          /\ session_state'[s] = session_state[s]
                          /\ analyze_cache' = analyze_cache
                   /\ rendered'[s].called => checked # {}
                   /\ checked # {} => SelectWarning \notin rendered'[s].warnings]_vars

\* the warning shown while earlier results stay in place
C3_Witness ==
    \E s \in DOMAIN rendered :
        /\ rendered[s].handler = "analyze"
        /\ cb[s] = {}
        /\ ~rendered[s].called
        /\ SelectWarning \in rendered[s].warnings
        /\ HasResults(s) /\ Results(s) # None
        /\ Len(session_state[s].posts) = 2

\* C8: a run started by a new filter choice calls no analysis and leaves the post list,
\* the stored result, the checkbox selections and both memos as they were; the page
\* shows the stored result under the new choice.
C8_FilterFrame ==
    [][\A s \in DOMAIN rendered :
           rendered'[s].handler = "filter" =>
               /\ ~rendered'[s].called
               /\ session_state'[s] = session_state[s]
               /\ cb'[s] = cb[s]
               /\ analyze_cache' = analyze_cache
               /\ search_cache' = search_cache
               /\ rendered'[s].results = <<ResultsView(Results(s), filter_choice'[s])>>]_vars

\* a filter that hides every comment, with a box still checked
C8_Witness ==
    \E s \in DOMAIN rendered :
        /\ rendered[s].handler = "filter"
        /\ filter_choice[s] = Positive
        /\ cb[s] # {}
        /\ HasResults(s) /\ Results(s) # None
        /\ rendered[s].results[1].cards = <<>>
        /\ Len(Results(s).comments) = 2

\* sub is seq with some elements left out, order kept
IsOrderedPart(sub, seq) ==
    \E keep \in SUBSET (1..Len(seq)) :
        /\ Len(sub) = Cardinality(keep)
        /\ \A k \in 1..Len(sub) :
               sub[k] = seq[CHOOSE j \in keep : Cardinality({m \in keep : m <= j}) = k]

\* C10: a session that holds analysis_results holds a non-empty post list, and the
\* result is the one computed for a non-empty list of ids of that post list, in post
\* order; it is never held right after a search.
C10_ResultsMatchPosts ==
    \A s \in DOMAIN rendered :
        HasResults(s) =>
            /\ HasPosts(s)
            /\ session_state[s].posts # <<>>
            /\ rendered[s].from # <<>>
            /\ IsOrderedPart(rendered[s].from, Ids(session_state[s].posts))
            /\ HasKey(analyze_cache, rendered[s].from)
            /\ Results(s) = analyze_cache[rendered[s].from].value
            /\ rendered[s].handler # "search"
            /\ rendered[s].results # <<>>

\* results for the second of two listed posts only
C10_Witness ==
    \E s \in DOMAIN rendered :
        /\ HasResults(s) /\ Results(s) # None
        /\ Len(session_state[s].posts) = 2
        /\ rendered[s].from = <<"p2">>
        /\ HasKey(search_cache, <<"AI ethics", "">>)
        /\ HasKey(search_cache, <<"AI ethics", "technology">>)
        /\ search_cache[<<"AI ethics", "">>].value # search_cache[<<"AI ethics", "technology">>].value

---------------------------------------------------------------------------
(* Properties of two sessions, under SpecShared *)

====
